---- MODULE Spec2Model ----
(***************************************************************************)
(* Model of chatlibre.py: the POST /translate handler (translate), the     *)
(* model invoker (chat), the Translation schema and the startup flags.     *)
(* A request is handled in three steps separated by the handler's only     *)
(* suspension point, the awaited remote call:                              *)
(*   Translate_Begin  lines 150-164 and chat lines 123-134 (call issued)   *)
(*   Remote_Reply     the backend answers or the client raises             *)
(*   Translate_Finish chat lines 135-146 and translate lines 165-177       *)
(***************************************************************************)
EXTENDS Integers, Sequences, FiniteSets, TLC

\* ---------------------------------------------------------------- bounds
MaxBatch == 2        \* longest batch `q` of a request
MaxReply == 2        \* longest translatedText array a model replies with

\* ------------------------------------------------------------ JSON values
Text == {"A", "B"}                 \* input fragments
Translated == {"a", "b"}           \* fragments a model may reply with
Targets == {"de"}                  \* target language codes

RECURSIVE SeqsUpTo(_, _)
SeqsUpTo(S, n) ==
    IF n = 0 THEN {<<>>}
    ELSE LET shorter == SeqsUpTo(S, n - 1)
         IN  shorter \cup {Append(l, x) : l \in {s \in shorter : Len(s) = n - 1}, x \in S}

\* A JSON value that is either a bare string or an array of strings.
JStr(s) == [isStr |-> TRUE, items |-> <<s>>]
JList(l) == [isStr |-> FALSE, items |-> l]

\* Python's None / an absent value.
None == [null |-> TRUE]

\* ----------------------------------------------------------- program data
DEFAULT_MODEL == "gpt-4o-mini"
ModelNames == {DEFAULT_MODEL, "gpt-4o"}

RESPONSE_FORMAT_TEXT == "text"
RESPONSE_FORMAT_JSON == "json_object"
TranslationFormat == "Translation"

\* The startup flags (class Args); listen_host, listen_port and log_level
\* do not reach the handler's logic.
Args == [model : ModelNames,
         disable_json_mode : BOOLEAN,
         disable_structured_output : BOOLEAN]

\* Request bodies: a JSON object whose keys `q` and `target` may be absent.
QValues == {JStr(s) : s \in Text} \cup {JList(l) : l \in SeqsUpTo(Text, MaxBatch)}
Bodies == {[q |-> v, target |-> t] : v \in QValues, t \in Targets}
            \cup {[q |-> v] : v \in QValues}
            \cup {[target |-> t] : t \in Targets}
            \cup {[other |-> "x"]}

\* Message contents a model may reply with: text that is not JSON, a JSON
\* object lacking translatedText, and objects carrying both fields, with a
\* confidence that is or is not positive and a translatedText that is an
\* array of any length or a bare string.
BadJson == [raw |-> "not json"]
DetectedLanguages == {[language |-> "zh", confidence |-> c] : c \in {0, 87}}
ReplyTexts == {JStr(s) : s \in Translated}
                \cup {JList(l) : l \in SeqsUpTo(Translated, MaxReply)}
Contents == {BadJson}
              \cup {[detectedLanguage |-> d] : d \in DetectedLanguages}
              \cup {[detectedLanguage |-> d, translatedText |-> t] :
                        d \in DetectedLanguages, t \in ReplyTexts}

\* What one remote call yields: a completion, or one of the client's failures.
Outcomes == {[kind |-> "reply", content |-> c] : c \in Contents}
              \cup {[kind |-> k, content |-> None] :
                        k \in {"RateLimitError", "OpenAIError", "IOError"}}

\* ------------------------------------------------------------------ state
VARIABLES
    args,         \* app[key_args], set once at startup
    pc,           \* position of the request task
    body,         \* the parsed request body (request.json())
    chat_text,    \* the `text` argument chat was called with
    resp_format,  \* the response_format passed to the remote call
    calls,        \* models called remotely for this request, in order
    backend,      \* what each model of the backend answers to this request
    comp,         \* the outcome of the awaited remote call
    ret,          \* how chat ended: an exception name or its return value
    response,     \* the HTTP response of the request
    log           \* the warning the handler logged, if any

vars == <<args, pc, body, chat_text, resp_format, calls, backend, comp, ret,
          response, log>>

NoBackend == [m \in ModelNames |-> [kind |-> "none", content |-> None]]
NoComp == [kind |-> "none", content |-> None]
NoRet == [exc |-> "pending", value |-> None]
NoResponse == [status |-> 0, text |-> "", json |-> None]

\* ------------------------------------------------------------ Translation
\* class DetectedLanguage: language: str, confidence: PositiveInt
DetectedLanguageValid(d) ==
    /\ DOMAIN d = {"language", "confidence"}
    /\ d.confidence > 0

\* class Translation: detected_language: DetectedLanguage,
\*                    translated_text: list[str]
\* The schema constrains the type of translated_text, not its length.
TranslationValid(c) ==
    /\ "detectedLanguage" \in DOMAIN c
    /\ "translatedText" \in DOMAIN c
    /\ DetectedLanguageValid(c.detectedLanguage)
    /\ ~c.translatedText.isStr

\* Translation.model_dump(by_alias=True): the keys are the camelCase aliases.
ModelDump(c) ==
    [detectedLanguage |-> c.detectedLanguage, translatedText |-> c.translatedText]

\* ------------------------------------------------------------------- chat
\* chat lines 144-145: resp["translated_text"] = resp["translated_text"][0]
\* on the dumped dict, whose keys are the aliases.
Unwrap(resp) ==
    IF "translated_text" \notin DOMAIN resp
    THEN [exc |-> "KeyError", value |-> None]
    ELSE IF Len(resp["translated_text"].items) = 0
    THEN [exc |-> "IndexError", value |-> None]
    ELSE [exc |-> "none",
          value |-> [resp EXCEPT !["translated_text"] =
                                    JStr(Head(resp["translated_text"].items))]]

\* chat lines 127-146, after the remote call has ended with outcome c.
ChatResult(text, c) ==
    IF c.kind # "reply"
    THEN [exc |-> c.kind, value |-> None]
    ELSE IF ~TranslationValid(c.content)
    THEN [exc |-> "ValidationError", value |-> None]
    ELSE IF text.isStr
    THEN Unwrap(ModelDump(c.content))
    ELSE [exc |-> "none", value |-> ModelDump(c.content)]

\* -------------------------------------------------------------- translate
\* Variant: the two flags tested in the opposite order.
SelectFormat_StructuredFirst(a) ==
    IF a.disable_structured_output THEN RESPONSE_FORMAT_JSON
    ELSE IF a.disable_json_mode THEN RESPONSE_FORMAT_TEXT
    ELSE TranslationFormat

\* translate lines 157-162.
SelectFormat(a) ==
    IF a.disable_json_mode THEN RESPONSE_FORMAT_TEXT
    ELSE IF a.disable_structured_output THEN RESPONSE_FORMAT_JSON
    ELSE TranslationFormat

\* translate lines 155-156.
Normalize(q) == IF q.isStr THEN JList(q.items) ELSE q

\* An exception no except clause catches leaves the handler; the server
\* answers 500.
Unhandled == [status |-> 500, text |-> "Internal Server Error", json |-> None]

DecodeExcs == {"ValidationError", "JSONDecodeError", "KeyError"}

\* Variant: the OpenAIError clause placed first; RateLimitError is a subclass
\* of OpenAIError and is caught by it.
ExceptClause_BaseFirst(exc) ==
    IF exc \in {"OpenAIError", "RateLimitError"}
    THEN [status |-> 503, text |-> "Upstream API error", log |-> "OpenAI error"]
    ELSE IF exc = "IOError"
    THEN [status |-> 503, text |-> "Upstream I/O error", log |-> "OpenAI API I/O error"]
    ELSE IF exc \in DecodeExcs
    THEN [status |-> 503, text |-> "Upstream response decoding error",
          log |-> "Decoding error"]
    ELSE [status |-> 500, text |-> "Internal Server Error", log |-> ""]

\* Variant: no clause for IOError.
ExceptClause_NoIOError(exc) ==
    IF exc = "RateLimitError"
    THEN [status |-> 429, text |-> "Upstream rate limit", log |-> "OpenAI rate limit"]
    ELSE IF exc = "OpenAIError"
    THEN [status |-> 503, text |-> "Upstream API error", log |-> "OpenAI error"]
    ELSE IF exc \in DecodeExcs
    THEN [status |-> 503, text |-> "Upstream response decoding error",
          log |-> "Decoding error"]
    ELSE [status |-> 500, text |-> "Internal Server Error", log |-> ""]

\* Variant: no clause for the decoding exceptions.
ExceptClause_NoDecode(exc) ==
    IF exc = "RateLimitError"
    THEN [status |-> 429, text |-> "Upstream rate limit", log |-> "OpenAI rate limit"]
    ELSE IF exc = "OpenAIError"
    THEN [status |-> 503, text |-> "Upstream API error", log |-> "OpenAI error"]
    ELSE IF exc = "IOError"
    THEN [status |-> 503, text |-> "Upstream I/O error", log |-> "OpenAI API I/O error"]
    ELSE [status |-> 500, text |-> "Internal Server Error", log |-> ""]

\* Variant: the decoding clause repeats the message of the OpenAIError clause.
ExceptClause_SameMessage(exc) ==
    IF exc = "RateLimitError"
    THEN [status |-> 429, text |-> "Upstream rate limit", log |-> "OpenAI rate limit"]
    ELSE IF exc = "OpenAIError"
    THEN [status |-> 503, text |-> "Upstream API error", log |-> "OpenAI error"]
    ELSE IF exc = "IOError"
    THEN [status |-> 503, text |-> "Upstream I/O error", log |-> "OpenAI API I/O error"]
    ELSE IF exc \in DecodeExcs
    THEN [status |-> 503, text |-> "Upstream API error", log |-> "OpenAI error"]
    ELSE [status |-> 500, text |-> "Internal Server Error", log |-> ""]

\* translate lines 165-177: the except clauses, in their order.
ExceptClause(exc) ==
    IF exc = "RateLimitError"
    THEN [status |-> 429, text |-> "Upstream rate limit", log |-> "OpenAI rate limit"]
    ELSE IF exc = "OpenAIError"
    THEN [status |-> 503, text |-> "Upstream API error", log |-> "OpenAI error"]
    ELSE IF exc = "IOError"
    THEN [status |-> 503, text |-> "Upstream I/O error", log |-> "OpenAI API I/O error"]
    ELSE IF exc \in DecodeExcs
    THEN [status |-> 503, text |-> "Upstream response decoding error",
          log |-> "Decoding error"]
    ELSE [status |-> 500, text |-> "Internal Server Error", log |-> ""]

Init ==
    /\ args \in Args
    /\ pc = "idle"
    /\ body = None
    /\ chat_text = None
    /\ resp_format = ""
    /\ calls = <<>>
    /\ backend = NoBackend
    /\ comp = NoComp
    /\ ret = NoRet
    /\ response = NoResponse
    /\ log = ""

\* chat lines 127-134: the one remote call of an invocation.
IssueCall(text) ==
    /\ chat_text' = text
    /\ calls' = Append(calls, args.model)
    /\ backend' \in [ModelNames -> Outcomes]
    /\ pc' = "awaiting"

\* translate lines 150-164 up to the await inside chat.
Translate_Begin(b) ==
    /\ pc = "idle"
    /\ body' = b
    /\ IF "q" \in DOMAIN b /\ "target" \in DOMAIN b
       THEN /\ resp_format' = SelectFormat(args)
            /\ IssueCall(Normalize(b.q))
            /\ UNCHANGED <<response>>
       ELSE \* req["q"] or req["target"] raises KeyError outside the try
            /\ response' = Unhandled
            /\ pc' = "done"
            /\ UNCHANGED <<chat_text, resp_format, calls, backend>>
    /\ UNCHANGED <<args, comp, ret, log>>

\* The awaited call of the model named by chat ends.
Remote_Reply ==
    /\ pc = "awaiting"
    /\ comp' = backend[calls[Len(calls)]]
    /\ pc' = "resumed"
    /\ UNCHANGED <<args, body, chat_text, resp_format, calls, backend, ret,
                   response, log>>

\* Variant: a reply that fails to decode is asked for again.
Translate_Finish_Retry ==
    /\ pc = "resumed"
    /\ ret' = ChatResult(chat_text, comp)
    /\ IF ret'.exc \in DecodeExcs
       THEN /\ calls' = Append(calls, args.model)
            /\ pc' = "awaiting"
            /\ UNCHANGED <<response, log>>
       ELSE /\ IF ret'.exc = "none"
               THEN /\ response' = [status |-> 200, text |-> "", json |-> ret'.value]
                    /\ log' = ""
               ELSE LET h == ExceptClause(ret'.exc)
                    IN  /\ response' = [status |-> h.status, text |-> h.text,
                                        json |-> None]
                        /\ log' = h.log
            /\ pc' = "done"
            /\ UNCHANGED calls
    /\ UNCHANGED <<args, body, chat_text, resp_format, backend, comp>>

\* chat lines 135-146 and translate lines 165-177.
Translate_Finish ==
    /\ pc = "resumed"
    /\ ret' = ChatResult(chat_text, comp)
    /\ IF ret'.exc = "none"
       THEN /\ response' = [status |-> 200, text |-> "", json |-> ret'.value]
            /\ log' = ""
       ELSE LET h == ExceptClause(ret'.exc)
            IN  /\ response' = [status |-> h.status, text |-> h.text, json |-> None]
                /\ log' = h.log
    /\ pc' = "done"
    /\ UNCHANGED <<args, body, chat_text, resp_format, calls, backend, comp>>

\* The response is sent; the request's objects are discarded.
Next_Request ==
    /\ pc \in {"done", "returned"}
    /\ pc' = "idle"
    /\ body' = None
    /\ chat_text' = None
    /\ resp_format' = ""
    /\ calls' = <<>>
    /\ backend' = NoBackend
    /\ comp' = NoComp
    /\ ret' = NoRet
    /\ response' = NoResponse
    /\ log' = ""
    /\ UNCHANGED args

Next ==
    \/ \E b \in Bodies : Translate_Begin(b)
    \/ Remote_Reply
    \/ Translate_Finish
    \/ Next_Request

Spec == Init /\ [][Next]_vars

\* ------------------------------------------------ chat as a function
\* chat called directly with a text that is a bare string or a list.
Chat_Invoke(text) ==
    /\ pc = "idle"
    /\ resp_format' = SelectFormat(args)
    /\ IssueCall(text)
    /\ UNCHANGED <<args, body, comp, ret, response, log>>

Chat_Return ==
    /\ pc = "resumed"
    /\ ret' = ChatResult(chat_text, comp)
    /\ pc' = "returned"
    /\ UNCHANGED <<args, body, chat_text, resp_format, calls, backend, comp,
                   response, log>>

NextChat ==
    \/ \E text \in QValues : Chat_Invoke(text)
    \/ Remote_Reply
    \/ Chat_Return
    \/ Next_Request

SpecChat == Init /\ [][NextChat]_vars

\* ----------------------------------------------------------------- claims
\* The remote call ended with a reply that fails JSON parsing or the schema.
DecodeFailure(o) == o.kind = "reply" /\ ~TranslationValid(o.content)
\* The remote call ended with a schema-valid reply.
ValidReply(o) == o.kind = "reply" /\ TranslationValid(o.content)
\* The request was well formed and reached the model invoker.
Invoked == calls # <<>>
\* The models configured at startup, in order: the single --model.
ConfiguredModels == <<args.model>>

\* C1: a 200 response to a request whose q is a bare string carries a bare
\* string as translatedText, never an array.
C1_SingleStringShape ==
    (pc = "done" /\ response.status = 200 /\ body.q.isStr)
        => response.json.translatedText.isStr

\* C2: a 200 response to a batch of N texts carries exactly N translations,
\* and a reply whose translatedText has another length is a decoding error,
\* never a success.
C2_BatchLength ==
    (pc = "done" /\ Invoked /\ ~body.q.isStr /\ comp.kind = "reply")
        => /\ response.status = 200
                => Len(response.json.translatedText.items) = Len(body.q.items)
           /\ ("translatedText" \in DOMAIN comp.content
                 /\ Len(comp.content.translatedText.items) # Len(body.q.items))
                => (ret.exc \in DecodeExcs /\ response.status # 200)

\* C3: once the remote call has failed with the rate-limit signal, the
\* request has made exactly one remote call and it ends with HTTP 429.
C3_RateLimited ==
    comp.kind = "RateLimitError"
        => /\ Len(calls) = 1
           /\ pc = "done" => (response.status = 429
                                /\ response.text = "Upstream rate limit")

C3_Witness ==
    pc = "done" /\ comp.kind = "RateLimitError" /\ response.status = 429

C6_UpstreamOrTransport ==
    comp.kind \in {"OpenAIError", "IOError"}
        => /\ Len(calls) = 1
           /\ response.status # 200
           /\ pc = "done" => response.status = 503

C6_Witness ==
    pc = "done" /\ comp.kind = "IOError" /\ response.status = 503

\* C7: a request whose body lacks q or target makes no remote call and is
\* answered with a 4xx status, never a 5xx one.
C7_MissingKeys ==
    (pc = "done" /\ ("q" \notin DOMAIN body \/ "target" \notin DOMAIN body))
        => /\ calls = <<>>
           /\ response.status \in 400..499

\* C8: the output-shaping mode of a request is decided by the two startup
\* flags alone: the Translation schema with neither flag, json_object with
\* only disable_structured_output, text whenever disable_json_mode is set.
C8_OutputMode ==
    Invoked
        => /\ (~args.disable_json_mode /\ ~args.disable_structured_output)
                <=> resp_format = TranslationFormat
           /\ (~args.disable_json_mode /\ args.disable_structured_output)
                <=> resp_format = RESPONSE_FORMAT_JSON
           /\ args.disable_json_mode <=> resp_format = RESPONSE_FORMAT_TEXT

C8_Witness ==
    /\ Invoked
    /\ args.disable_json_mode /\ args.disable_structured_output
    /\ resp_format = RESPONSE_FORMAT_TEXT

\* C9: chat called with a bare string, the model replying with a schema-valid
\* one-element array, returns normally with that element as a bare string.
C9_ChatUnwraps ==
    (pc = "returned" /\ chat_text.isStr /\ ValidReply(comp)
        /\ Len(comp.content.translatedText.items) = 1)
        => /\ ret.exc = "none"
           /\ ret.value.translatedText = JStr(comp.content.translatedText.items[1])

\* C10: the remote calls of a request are a prefix of the configured models
\* in their order (so none is called twice and there are never more calls
\* than models), and an attempt that has ended made exactly one call.
C10_OneCallPerModel ==
    /\ Len(calls) <= Len(ConfiguredModels)
    /\ \A i \in 1..Len(calls) : calls[i] = ConfiguredModels[i]
    /\ ret.exc # "pending" => Len(calls) = 1

C10_Witness ==
    pc = "done" /\ ret.exc = "ValidationError" /\ calls = <<args.model>>
====
